---- MODULE Spec2Model ----
(***************************************************************************)
(* A model of the sliding-window event counter of lib/counter.js.          *)
(*                                                                         *)
(* The counter keeps one Uint32 bucket per second of a trailing window of  *)
(* maxDuration seconds in a circular buffer; _getIndex() lazily zeroes the *)
(* buckets of the seconds that went by since the last access.              *)
(*                                                                         *)
(* Numbers.  A bucket is 32 bits wide and getCount() adds buckets up in a  *)
(* JavaScript Number; neither fits the integers of the model checker, so a *)
(* number is kept as two limbs, [hi, lo], standing for hi * 2^27 + lo.     *)
(* A non-negative number is kept normalised (0 <= lo < 2^27); the only     *)
(* negative number of the program, the sentinel -1, is Num(-1).  A bucket  *)
(* has hi < 2^5, and 2^53 is the number with hi = 2^26 and lo = 0.         *)
(***************************************************************************)
EXTENDS Integers, Sequences, FiniteSets

\* ------------------------------------------------------------- bounds
\* Largest maxDuration an instance is constructed with (besides the default).
MaxDur == 4
\* Last second the clock reaches; it starts at second 0.
MaxTime == 5
\* Successful increments modelled per second (unless a bucket sits at the top).
MaxEvents == 2
\* Iterations modelled at the end of a long loop of getCount().
MaxTail == 2

\* ------------------------------------------------------------- numbers
Limb == 2 ^ 27

\* 2^32 = Uint32Top * Limb
Uint32Top == 2 ^ 5

\* 2^53 = SafeTop * Limb = Number.MAX_SAFE_INTEGER + 1
SafeTop == 2 ^ 26

Num(n) == [hi |-> 0, lo |-> n]

Zero == Num(0)

\* 4,294,967,295, the largest value of a Uint32Array element
MaxUint32 == [hi |-> Uint32Top - 1, lo |-> Limb - 1]

\* ++ on a Uint32Array element: (w + 1) modulo 2^32
Uint32Inc(w) ==
    IF w.lo = Limb - 1
    THEN [hi |-> (w.hi + 1) % Uint32Top, lo |-> 0]
    ELSE [hi |-> w.hi, lo |-> w.lo + 1]

\* a + b on integers, exactly
Plus(a, b) ==
    [hi |-> a.hi + b.hi + ((a.lo + b.lo) \div Limb), lo |-> (a.lo + b.lo) % Limb]

\* count += x on JavaScript Numbers, a the running count and x a bucket:
\* IEEE 754 doubles are exact below 2^53; from 2^53 to 2^54 they are the
\* even integers, and an odd sum goes to the neighbour whose half is even.
Add(a, b) ==
    LET s == Plus(a, b)
    IN  IF s.hi < SafeTop \/ s.lo % 2 = 0
        THEN s
        ELSE IF s.lo % 4 = 1
        THEN [hi |-> s.hi, lo |-> s.lo - 1]
        ELSE IF s.lo + 1 = Limb
        THEN [hi |-> s.hi + 1, lo |-> 0]
        ELSE [hi |-> s.hi, lo |-> s.lo + 1]

\* The test that also takes Number.MAX_SAFE_INTEGER itself for unsafe.
IsSafeBelowCeiling(count) ==
    count.hi < SafeTop - 1 \/ (count.hi = SafeTop - 1 /\ count.lo < Limb - 1)

\* count <= Number.MAX_SAFE_INTEGER, i.e. count < 2^53
IsSafe(count) == count.hi < SafeTop

\* ------------------------------------------------------------- arguments
\* An optional argument: <<>> when omitted (undefined), <<n>> when given.
NoArg == <<>>

Arg(n) == <<n>>

DefaultMaxDuration == 60

VARIABLES
    clock,          \* the wall clock, in whole seconds (Counter.now())
    instance,       \* "none" before construction, "ready", or "threw"
    maxDuration,    \* field of the instance
    data,           \* field of the instance: the Uint32Array
    lastUpdatedAt,  \* field of the instance
    hist,           \* ghost: increment() calls that returned true, per second
    story,          \* ghost: the calls made on the instance so far, in short
    last,           \* ghost: the last call, what it read and what it returned
    call            \* the call in progress, where calls are taken step by step

vars == <<clock, instance, maxDuration, data, lastUpdatedAt, hist, story, last, call>>

\* ------------------------------------------------------------- the class
\* Uint32Array.prototype.fill(0, start, end)
Fill(d, start, end) ==
    [i \in DOMAIN d |-> IF start <= i /\ i < end THEN Zero ELSE d[i]]

\* new Counter(maxDuration) that allocates one bucket too few.
ConstructorOneShort(arg, now) ==
    LET m == IF arg = NoArg THEN DefaultMaxDuration ELSE arg[1]
    IN  IF m < 0
        THEN [threw |-> TRUE, maxDuration |-> m, data |-> <<>>, lastUpdatedAt |-> now]
        ELSE [threw |-> FALSE,
              maxDuration |-> m,
              data |-> [i \in 0 .. m - 2 |-> Zero],
              lastUpdatedAt |-> now]

\* new Counter(maxDuration): the fields, or threw when new Uint32Array(n)
\* raises a RangeError (n < 0).
Constructor(arg, now) ==
    LET m == IF arg = NoArg THEN DefaultMaxDuration ELSE arg[1]
    IN  IF m < 0
        THEN [threw |-> TRUE, maxDuration |-> m, data |-> <<>>, lastUpdatedAt |-> now]
        ELSE [threw |-> FALSE,
              maxDuration |-> m,
              data |-> [i \in 0 .. m - 1 |-> Zero],
              lastUpdatedAt |-> now]

\* _getIndex() with one slip:
\*   "segment": only [start, maxDuration) is zeroed when the range wraps;
\*   "reuse":   the bucket of the next second is not zeroed (elapsed = 1);
\*   "idle":    after maxDuration idle seconds only the current bucket is zeroed;
\*   "short":   the range ends at now instead of now + 1;
\*   "early":   the range starts at lastUpdatedAt instead of lastUpdatedAt + 1;
\*   "stale":   lastUpdatedAt is not set where elapsed = 1;
\*   "keepnow": after maxDuration idle seconds the current bucket is left out.
GetIndexSlip(self, now, slip) ==
    LET md == self.maxDuration
        d == self.data
        index == IF md = 0 THEN -1 ELSE now % md
        elapsed == now - self.lastUpdatedAt
        zeroed ==
            IF elapsed = 1
            THEN (IF slip = "reuse"
                  THEN d
                  ELSE [i \in DOMAIN d |-> IF i = index THEN Zero ELSE d[i]])
            ELSE IF elapsed >= md
            THEN (IF slip = "idle"
                  THEN [i \in DOMAIN d |-> IF i = index THEN Zero ELSE d[i]]
                  ELSE IF slip = "keepnow"
                  THEN [i \in DOMAIN d |-> IF i = index THEN d[i] ELSE Zero]
                  ELSE Fill(d, 0, md))
            ELSE IF elapsed > 1
            THEN LET start == IF slip = "early"
                              THEN self.lastUpdatedAt % md
                              ELSE (self.lastUpdatedAt + 1) % md
                     end == IF slip = "short" THEN now % md ELSE (now + 1) % md
                 IN  IF start < end
                     THEN Fill(d, start, end)
                     ELSE IF slip = "segment"
                     THEN Fill(d, start, md)
                     ELSE Fill(Fill(d, start, md), 0, end)
            ELSE d
    IN  [maxDuration |-> md, data |-> zeroed,
         lastUpdatedAt |-> IF slip = "stale" /\ elapsed = 1
                           THEN self.lastUpdatedAt
                           ELSE now,
         index |-> index, elapsed |-> elapsed]

GetIndexNoSecondSegment(self, now) == GetIndexSlip(self, now, "segment")

GetIndexNoReuseReset(self, now) == GetIndexSlip(self, now, "reuse")

GetIndexIdleKeepsOthers(self, now) == GetIndexSlip(self, now, "idle")

GetIndexRangeStopsShort(self, now) == GetIndexSlip(self, now, "short")

GetIndexRangeStartsEarly(self, now) == GetIndexSlip(self, now, "early")

GetIndexStaleAfterOneSecond(self, now) == GetIndexSlip(self, now, "stale")

GetIndexIdleKeepsNow(self, now) == GetIndexSlip(self, now, "keepnow")

\* _getIndex(): the fields after the call, the index returned and elapsed.
\* With maxDuration = 0 the index is NaN: no bucket has it (index -1 below
\* stands for it, outside every buffer).
GetIndex(self, now) ==
    LET md == self.maxDuration
        d == self.data
        index == IF md = 0 THEN -1 ELSE now % md
        elapsed == now - self.lastUpdatedAt
        zeroed ==
            IF elapsed = 1
            THEN [i \in DOMAIN d |-> IF i = index THEN Zero ELSE d[i]]
            ELSE IF elapsed >= md
            THEN Fill(d, 0, md)
            ELSE IF elapsed > 1
            THEN LET start == (self.lastUpdatedAt + 1) % md
                     end == (now + 1) % md
                 IN  IF start < end
                     THEN Fill(d, start, end)
                     ELSE Fill(Fill(d, start, md), 0, end)
            ELSE d
    IN  [maxDuration |-> md, data |-> zeroed, lastUpdatedAt |-> now,
         index |-> index, elapsed |-> elapsed]

\* increment() that reports the overflow but leaves the wrapped bucket at 0.
IncrementNoRestore(self, now) ==
    LET g == GetIndex(self, now)
        index == g.index
    IN  IF index \notin DOMAIN g.data
        THEN [maxDuration |-> g.maxDuration, data |-> g.data,
              lastUpdatedAt |-> g.lastUpdatedAt, ok |-> TRUE]
        ELSE LET bumped == [g.data EXCEPT ![index] = Uint32Inc(@)]
             IN  [maxDuration |-> g.maxDuration, data |-> bumped,
                  lastUpdatedAt |-> g.lastUpdatedAt, ok |-> bumped[index] # Zero]

\* increment() from the index _getIndex() returned, g being the fields
\* _getIndex() left: the fields after the call and the boolean returned.
\* data[NaN] reads undefined and ignores writes, so with no bucket at index
\* nothing is stored and undefined === 0 is false: the call returns true.
IncrementAt(g, index) ==
    IF index \notin DOMAIN g.data
    THEN [maxDuration |-> g.maxDuration, data |-> g.data,
          lastUpdatedAt |-> g.lastUpdatedAt, ok |-> TRUE]
    ELSE LET lastCount == g.data[index]
             bumped == [g.data EXCEPT ![index] = Uint32Inc(lastCount)]
         IN  IF bumped[index] = Zero
             THEN [maxDuration |-> g.maxDuration,
                   data |-> [bumped EXCEPT ![index] = lastCount],
                   lastUpdatedAt |-> g.lastUpdatedAt, ok |-> FALSE]
             ELSE [maxDuration |-> g.maxDuration, data |-> bumped,
                   lastUpdatedAt |-> g.lastUpdatedAt, ok |-> TRUE]

\* increment()
Increment(self, now) ==
    LET g == GetIndex(self, now) IN IncrementAt(g, g.index)

\* The clamping without its floor of 1.
ClampDurationNoFloor(duration, md) ==
    IF duration = NoArg
    THEN md
    ELSE IF duration[1] > md
    THEN md
    ELSE duration[1]

\* The clamping of getCount's duration argument.
ClampDuration(duration, md) ==
    IF duration = NoArg
    THEN md
    ELSE IF duration[1] > md
    THEN md
    ELSE IF duration[1] < 1
    THEN 1
    ELSE duration[1]

\* WalkIndex with the wrap test off by one (index - i <= 0).
WalkIndexWrapsAtZero(index, i, md) == IF index - i <= 0 THEN index - i + md ELSE index - i

\* WalkIndex that wraps to one bucket short of the end of the buffer.
WalkIndexWrapsOneShort(index, i, md) ==
    IF index - i < 0 THEN index - i + md - 1 ELSE index - i

\* The bucket the loop of getCount reads in iteration i.
WalkIndex(index, i, md) == IF index - i < 0 THEN index - i + md ELSE index - i

\* The loop of getCount from iteration i on, count being the sum so far:
\* the final count, and whether an undefined element was added (NaN).
\* (next.sum.lo >= 0 always holds; testing it has the running count
\* evaluated in each iteration instead of piling up unevaluated.)
RECURSIVE Walk(_, _, _, _, _)
Walk(d, index, md, i, count) ==
    IF i < 0
    THEN count
    ELSE LET idx == WalkIndex(index, i, md)
             next == IF idx \in DOMAIN d
                     THEN [nan |-> count.nan, sum |-> Add(count.sum, d[idx])]
                     ELSE [nan |-> TRUE, sum |-> count.sum]
         IN  IF next.sum.lo >= 0 THEN Walk(d, index, md, i - 1, next) ELSE next

\* return count <= Number.MAX_SAFE_INTEGER ? count : -1, w being what the
\* loop left (NaN <= x is false)
Outcome(w) == IF ~w.nan /\ IsSafe(w.sum) THEN w.sum ELSE Num(-1)

\* getCount() whose loop runs from duration down to 1 and so leaves the
\* bucket of the current second out.
GetCountSkipsNow(self, duration, now) ==
    LET g == GetIndex(self, now)
        dur == ClampDuration(duration, g.maxDuration)
        w == Walk(g.data, WalkIndex(g.index, 1, g.maxDuration), g.maxDuration, dur - 1,
                  [nan |-> FALSE, sum |-> Zero])
    IN  [maxDuration |-> g.maxDuration, data |-> g.data,
         lastUpdatedAt |-> g.lastUpdatedAt, count |-> Outcome(w)]

\* getCount(duration) from the index _getIndex() returned, g being the
\* fields _getIndex() left: the fields after the call and the number returned.
GetCountAt(g, index, duration) ==
    LET dur == ClampDuration(duration, g.maxDuration)
        w == Walk(g.data, index, g.maxDuration, dur - 1, [nan |-> FALSE, sum |-> Zero])
    IN  [maxDuration |-> g.maxDuration, data |-> g.data,
         lastUpdatedAt |-> g.lastUpdatedAt, count |-> Outcome(w)]

\* getCount() that reads the bucket of the current second and resets it.
GetCountResetsNow(self, duration, now) ==
    LET g == GetIndex(self, now)
        r == GetCountAt(g, g.index, duration)
    IN  [r EXCEPT !.data = [i \in DOMAIN r.data |-> IF i = g.index THEN Zero ELSE r.data[i]]]

\* getCount(duration)
GetCount(self, duration, now) ==
    LET g == GetIndex(self, now) IN GetCountAt(g, g.index, duration)

\* ------------------------------------------------------------- the state machine
Self == [maxDuration |-> maxDuration, data |-> data, lastUpdatedAt |-> lastUpdatedAt]

NoCall == [op |-> "none", now |-> 0, elapsed |-> 0, d |-> NoArg, ok |-> TRUE, count |-> Zero]

NoHist == [t \in 0 .. MaxTime |-> 0]

\* No call in progress.  Of a call in progress: pc is the statement it is
\* at, now the constant of _getIndex(), index what _getIndex() returned, d
\* the argument, count the variable of getCount(), ok the boolean returned,
\* end (ghost) the clock second in which it returned.
Idle == [pc |-> "idle", op |-> "none", now |-> 0, index |-> 0, d |-> NoArg,
         count |-> Zero, ok |-> TRUE, end |-> 0]

\* The calls made since construction: "new" (none), "gets" (getCount only),
\* "inc" (one increment), "incget" (one increment, then one getCount), "other";
\* "regressed" once the clock was set back.
StoryAfter(s, op) ==
    IF s = "regressed"
    THEN s
    ELSE IF op = "increment"
    THEN (IF s = "new" THEN "inc" ELSE "other")
    ELSE (IF s \in {"new", "gets"} THEN "gets" ELSE IF s = "inc" THEN "incget" ELSE "other")

\* The seconds hist remembers: those of the longest window asked about.
Horizon == IF maxDuration <= MaxDur THEN maxDuration ELSE MaxDur

\* The arguments create() is called with: omitted, negative, zero, positive.
CtorArgs == {NoArg} \cup {Arg(m) : m \in -1 .. MaxDur}

\* The arguments getCount() is called with.
Durations == {NoArg} \cup {Arg(d) : d \in -1 .. MaxDur + 1}

\* Values a test writes straight into counter.data.
MockValues == {Num(1), [hi |-> Uint32Top - 1, lo |-> Limb - 2], MaxUint32}

\* The state before Counter.create() is called.
InitCreate ==
    /\ clock = 0
    /\ instance = "none"
    /\ maxDuration = 0
    /\ data = <<>>
    /\ lastUpdatedAt = 0
    /\ hist = NoHist
    /\ story = "new"
    /\ last = NoCall
    /\ call = Idle

\* Counter.create(arg)
Create(arg) ==
    /\ instance = "none"
    /\ LET c == Constructor(arg, clock)
       IN  /\ instance' = IF c.threw THEN "threw" ELSE "ready"
           /\ maxDuration' = c.maxDuration
           /\ data' = c.data
           /\ lastUpdatedAt' = c.lastUpdatedAt
    /\ last' = [NoCall EXCEPT !.op = "create", !.now = clock, !.d = arg]
    /\ UNCHANGED <<clock, hist, story, call>>

\* A counter right after Counter.create(m), m a positive integer.
Init ==
    /\ clock = 0
    /\ instance = "ready"
    /\ \E m \in 1 .. MaxDur :
           LET c == Constructor(Arg(m), clock)
           IN  /\ maxDuration = c.maxDuration
               /\ data = c.data
               /\ lastUpdatedAt = c.lastUpdatedAt
               /\ last = [NoCall EXCEPT !.op = "create", !.now = clock, !.d = Arg(m)]
    /\ hist = NoHist
    /\ story = "new"
    /\ call = Idle

\* A second goes by; hist forgets the second that left the longest window.
Tick ==
    /\ clock < MaxTime
    /\ clock' = clock + 1
    /\ hist' = [t \in 0 .. MaxTime |-> IF t <= clock' - Horizon THEN 0 ELSE hist[t]]
    /\ UNCHANGED <<instance, maxDuration, data, lastUpdatedAt, story, last, call>>

\* The wall clock is set back (Date.now() is not monotonic), once in a run.
Regress ==
    /\ story # "regressed"
    /\ \E t \in 0 .. clock - 1 : clock' = t
    /\ story' = "regressed"
    /\ UNCHANGED <<instance, maxDuration, data, lastUpdatedAt, hist, last, call>>

\* counter.increment()
IncrementOp ==
    /\ instance = "ready"
    /\ LET r == Increment(Self, clock)
       IN  /\ r.ok => /\ hist[clock] < MaxEvents
                      /\ maxDuration <= MaxDur \/ story \in {"new", "gets"}
           /\ maxDuration' = r.maxDuration
           /\ data' = r.data
           /\ lastUpdatedAt' = r.lastUpdatedAt
           /\ hist' = IF r.ok THEN [hist EXCEPT ![clock] = @ + 1] ELSE hist
           /\ last' = [op |-> "increment", now |-> clock,
                       elapsed |-> clock - lastUpdatedAt,
                       d |-> NoArg, ok |-> r.ok, count |-> Zero]
    /\ story' = StoryAfter(story, "increment")
    /\ UNCHANGED <<clock, instance, call>>

\* counter.getCount(d)
GetCountOp(d) ==
    /\ instance = "ready"
    /\ LET r == GetCount(Self, d, clock)
       IN  /\ maxDuration' = r.maxDuration
           /\ data' = r.data
           /\ lastUpdatedAt' = r.lastUpdatedAt
           /\ last' = [op |-> "getCount", now |-> clock,
                       elapsed |-> clock - lastUpdatedAt,
                       d |-> d, ok |-> TRUE, count |-> r.count]
    /\ story' = StoryAfter(story, "getCount")
    /\ UNCHANGED <<clock, instance, hist, call>>

\* for (i ...) counter.data[i] = v, as the tests do to set the buckets up
MockOp(v) ==
    /\ instance = "ready"
    /\ data' = [i \in DOMAIN data |-> v]
    /\ last' = [NoCall EXCEPT !.op = "mock", !.now = clock]
    /\ story' = "other"
    /\ UNCHANGED <<clock, instance, maxDuration, lastUpdatedAt, hist, call>>

Next ==
    \/ Tick
    \/ IncrementOp
    \/ \E d \in Durations : GetCountOp(d)

Spec == Init /\ [][Next]_vars

NextMock ==
    \/ Tick
    \/ IncrementOp
    \/ GetCountOp(NoArg)
    \/ \E v \in MockValues : MockOp(v)

SpecMock == Init /\ [][NextMock]_vars

NextRegress ==
    \/ Tick
    \/ IncrementOp
    \/ GetCountOp(NoArg)
    \/ Regress

SpecRegress == Init /\ [][NextRegress]_vars

NextCreate ==
    \/ Next
    \/ \E arg \in CtorArgs : Create(arg)

SpecCreate == InitCreate /\ [][NextCreate]_vars

\* The calls taken one statement at a time, the clock free to tick between
\* the statements: Counter.now() is read (line 51), _getIndex() does the
\* rest of its work, then the caller goes on with the index returned.
\* The arguments getCount() is called with there.
StepDurations == {NoArg, Arg(1)}

\* The index the body of increment() or getCount() uses, where the clock
\* is read again for it.
AccessIndexRereadsClock(c, clk, md) == IF md = 0 THEN -1 ELSE clk % md

\* The index the body of increment() or getCount() uses: the constant
\* that took what _getIndex() returned.
AccessIndex(c, clk, md) == c.index

\* const now = Counter.now()
ReadClock(op, d) ==
    /\ instance = "ready"
    /\ call.pc \in {"idle", "done"}
    /\ op = "increment" => \A i \in DOMAIN data : data[i].hi = 0 /\ data[i].lo < MaxEvents
    /\ call' = [Idle EXCEPT !.pc = "read", !.op = op, !.now = clock, !.d = d]
    /\ UNCHANGED <<clock, instance, maxDuration, data, lastUpdatedAt, hist, story, last>>

\* the rest of _getIndex()
Advance ==
    /\ call.pc = "read"
    /\ LET g == GetIndex(Self, call.now)
       IN  /\ maxDuration' = g.maxDuration
           /\ data' = g.data
           /\ lastUpdatedAt' = g.lastUpdatedAt
           /\ call' = [call EXCEPT !.pc = "advanced", !.index = g.index]
    /\ UNCHANGED <<clock, instance, hist, story, last>>

\* the rest of increment()
IncrementBody ==
    /\ call.pc = "advanced"
    /\ call.op = "increment"
    /\ LET r == IncrementAt(Self, AccessIndex(call, clock, maxDuration))
       IN  /\ maxDuration' = r.maxDuration
           /\ data' = r.data
           /\ lastUpdatedAt' = r.lastUpdatedAt
           /\ call' = [call EXCEPT !.pc = "done", !.ok = r.ok, !.end = clock]
    /\ UNCHANGED <<clock, instance, hist, story, last>>

\* the rest of getCount()
GetCountBody ==
    /\ call.pc = "advanced"
    /\ call.op = "getCount"
    /\ LET r == GetCountAt(Self, AccessIndex(call, clock, maxDuration), call.d)
       IN  /\ maxDuration' = r.maxDuration
           /\ data' = r.data
           /\ lastUpdatedAt' = r.lastUpdatedAt
           /\ call' = [call EXCEPT !.pc = "done", !.count = r.count, !.end = clock]
    /\ UNCHANGED <<clock, instance, hist, story, last>>

NextSteps ==
    \/ Tick
    \/ ReadClock("increment", NoArg)
    \/ \E d \in StepDurations : ReadClock("getCount", d)
    \/ Advance
    \/ IncrementBody
    \/ GetCountBody

SpecSteps == Init /\ [][NextSteps]_vars

\* The end of the loop of getCount().  A window sum comes near 2^53 only
\* over more than 2^21 buckets, so the loop is taken up where it has the
\* last n buckets left to add, count holding the sum of the ones before.
\* 2^53 less some x, for 0 <= x <= 2^53:
NearSafeTop(x) ==
    IF x.lo = 0
    THEN [hi |-> SafeTop - x.hi, lo |-> 0]
    ELSE [hi |-> SafeTop - x.hi - 1, lo |-> Limb - x.lo]

\* The running count the last iterations start from.
Counts ==
    {Zero}
        \cup {NearSafeTop(x) : x \in {Zero, Num(1), Num(2), MaxUint32, Plus(MaxUint32, Num(1)),
                                       Plus(MaxUint32, MaxUint32),
                                       Plus(Plus(MaxUint32, MaxUint32), Num(1))}}

\* The values of the buckets the last iterations add.
TailValues == {Zero, Num(1), Num(3), MaxUint32}

InitSum ==
    /\ clock = 0
    /\ instance = "summing"
    /\ \E n \in 1 .. MaxTail :
           /\ maxDuration = n
           /\ data \in [0 .. n - 1 -> TailValues]
           /\ \E c \in Counts :
                  call = [Idle EXCEPT !.pc = "loop", !.op = "getCount",
                                      !.index = n - 1, !.count = c]
    /\ lastUpdatedAt = 0
    /\ hist = NoHist
    /\ story = "other"
    /\ last = NoCall

\* for (i = n - 1; i >= 0; i--) count += data[idx], and the return
FinishSum ==
    /\ instance = "summing"
    /\ LET w == Walk(data, call.index, maxDuration, maxDuration - 1,
                     [nan |-> FALSE, sum |-> call.count])
       IN  last' = [NoCall EXCEPT !.op = "getCount", !.count = Outcome(w)]
    /\ instance' = "summed"
    /\ UNCHANGED <<clock, maxDuration, data, lastUpdatedAt, hist, story, call>>

SpecSum == InitSum /\ [][FinishSum]_vars

\* ------------------------------------------------------------- properties
\* A usable counter: constructed with a positive maxDuration.
Valid == instance = "ready" /\ maxDuration >= 1

\* A call has just returned: the clock still shows the second the call read.
JustCalled(op) == last.op = op /\ clock = last.now

\* The increment() calls that returned true in second t.
Recorded(t) == IF t \in 0 .. MaxTime THEN hist[t] ELSE 0

\* The increment() calls that returned true in the seconds from .. to.
RECURSIVE RecordedIn(_, _)
RecordedIn(from, to) ==
    IF from > to THEN 0 ELSE Recorded(to) + RecordedIn(from, to - 1)

\* The second of the window ending at lastUpdatedAt that bucket i stands for.
SecondOf(i) ==
    CHOOSE t \in (lastUpdatedAt - maxDuration + 1) .. lastUpdatedAt :
        (t + maxDuration) % maxDuration = i

\* C1: getCount(d), 1 <= d <= maxDuration, returns exactly the number of
\* increment() calls that returned true in the d seconds now-d+1 .. now;
\* nothing recorded at a second <= now-d is counted.
C1_GetCountIsWindowSum ==
    (/\ Valid
     /\ JustCalled("getCount")
     /\ last.d # NoArg
     /\ last.d[1] \in 1 .. maxDuration)
    => last.count = Num(RecordedIn(last.now - last.d[1] + 1, last.now))

\* getCount(2) on a counter of 4 seconds whose buckets have been reused
\* returns 3 while the second just outside the window holds an event.
C1_Witness ==
    /\ Valid
    /\ JustCalled("getCount")
    /\ maxDuration = 4
    /\ last.d = Arg(2)
    /\ last.now >= 5
    /\ last.count = Num(3)
    /\ hist[last.now - 2] = 1

\* C2: right after construction, increment() or getCount(), every bucket i
\* holds the number of events recorded in the one second t of the window
\* lastUpdatedAt-maxDuration+1 .. lastUpdatedAt with t mod maxDuration = i,
\* and 0 when nothing of that window is left in it.
C2_BucketsMatchWindow ==
    (/\ Valid
     /\ last.op \in {"create", "increment", "getCount"}
     /\ clock = last.now)
    => \A i \in 0 .. maxDuration - 1 : data[i] = Num(Recorded(SecondOf(i)))

\* After an access in second 5 a counter of 4 seconds holds seconds 2..5,
\* with second 3, in which nothing was recorded, at 0.
C2_Witness ==
    /\ Valid
    /\ JustCalled("increment")
    /\ maxDuration = 4
    /\ lastUpdatedAt = 5
    /\ data[1] = Num(2)
    /\ data[0] = Num(1)
    /\ data[3] = Zero
    /\ data[2] = Num(1)

\* C3: increment() whose current-second bucket, after _getIndex, holds
\* 4,294,967,295 returns false and leaves every bucket as _getIndex left it;
\* otherwise it returns true and raises that bucket by exactly 1, changing
\* no other bucket beyond the zeroing of _getIndex.
C3_IncrementOverflow ==
    [][(Valid /\ IncrementOp) =>
          LET advanced == GetIndex(Self, clock).data
              index == clock % maxDuration
          IN  IF advanced[index] = MaxUint32
              THEN ~last'.ok /\ data' = advanced
              ELSE /\ last'.ok
                   /\ data' = [advanced EXCEPT ![index] = Add(@, Num(1))]]_vars

\* An increment() was refused with the current bucket at the 32-bit top.
C3_Witness ==
    /\ Valid
    /\ JustCalled("increment")
    /\ ~last.ok
    /\ data[last.now % maxDuration] = MaxUint32

\* C4 (as claimed): lastUpdatedAt never decreases, also when a call reads a
\* clock earlier than lastUpdatedAt.
C4_LastUpdatedAtNeverDecreases ==
    [][lastUpdatedAt' >= lastUpdatedAt]_vars

\* C5 (as claimed): create(maxDuration) yields no instance unless
\* maxDuration is a positive integer.
C5_CreateRejectsNonPositive ==
    (last.op = "create" /\ last.d # NoArg /\ last.d[1] < 1) => instance # "ready"

\* What the duration argument d of getCount is claimed to stand for.
ClaimedDuration(d) ==
    IF d = NoArg THEN maxDuration
    ELSE IF d[1] > maxDuration THEN maxDuration
    ELSE IF d[1] < 1 THEN 1
    ELSE d[1]

\* C6: in one state and one clock second, getCount(d) for d > maxDuration
\* and getCount() equal getCount(maxDuration), getCount(d) for d < 1 equals
\* getCount(1), none of them fails (each returns a count, not -1); and the
\* value a getCount(d) call returned is the one of its clamped duration.
C6_DurationClamping ==
    Valid =>
        /\ \A d \in Durations :
               /\ GetCount(Self, d, clock).count
                      = GetCount(Self, Arg(ClaimedDuration(d)), clock).count
               /\ GetCount(Self, d, clock).count # Num(-1)
        /\ JustCalled("getCount") =>
               last.count = GetCount(Self, Arg(ClaimedDuration(last.d)), clock).count

\* getCount(0) returned the 2 events of the current second, while the whole
\* window holds more.
C6_Witness ==
    /\ Valid
    /\ JustCalled("getCount")
    /\ maxDuration >= 2
    /\ last.d = Arg(0)
    /\ last.count = Num(2)
    /\ GetCount(Self, Arg(maxDuration + 1), clock).count = Num(3)
    /\ GetCount(Self, NoArg, clock).count = Num(3)

\* C7: when increment() ran exactly once in each of the last maxDuration
\* seconds (n >= maxDuration consecutive seconds, buckets reused when
\* n > maxDuration), after the last increment every bucket is 1 and
\* getCount() is maxDuration; and the first increment() of a second leaves
\* its bucket at exactly 1, whatever the reused bucket held.
C7_BucketReuse ==
    (Valid /\ JustCalled("increment")) =>
        /\ (\A t \in (clock - maxDuration + 1) .. clock : Recorded(t) = 1) =>
               /\ \A i \in 0 .. maxDuration - 1 : data[i] = Num(1)
               /\ GetCount(Self, NoArg, clock).count = Num(maxDuration)
        /\ hist[clock] = 1 => data[clock % maxDuration] = Num(1)

\* One increment in each second up to second 5 on a counter of 4 seconds.
C7_Witness ==
    /\ Valid
    /\ JustCalled("increment")
    /\ maxDuration = 4
    /\ clock = 5
    /\ last.elapsed = 1
    /\ \A t \in 2 .. 5 : hist[t] = 1
    /\ \A i \in 0 .. 3 : data[i] = Num(1)

\* C8: whatever the buckets hold, after an increment() that reads a clock
\* at least maxDuration seconds after lastUpdatedAt the bucket of index
\* now mod maxDuration is 1 and every other bucket is 0.
C8_InactivityReset ==
    (Valid /\ last.op = "increment" /\ last.elapsed >= maxDuration) =>
        data = [i \in 0 .. maxDuration - 1 |->
                    IF i = last.now % maxDuration THEN Num(1) ELSE Zero]

\* An increment() after 4 idle seconds on a counter of 4 seconds.
C8_Witness ==
    /\ Valid
    /\ JustCalled("increment")
    /\ maxDuration = 4
    /\ last.elapsed >= 4
    /\ last.ok
    /\ data = [i \in 0 .. 3 |-> IF i = clock % 4 THEN Num(1) ELSE Zero]

\* C9: for even maxDuration, when the last maxDuration seconds hold exactly
\* one increment() in every second second (the current one included, and at
\* least maxDuration/2 of them), every bucket of the parity of the current
\* second is 1 and every other bucket is 0.
C9_HoleZeroing ==
    (/\ Valid
     /\ maxDuration % 2 = 0
     /\ JustCalled("increment")
     /\ clock - maxDuration + 2 >= 0
     /\ \A t \in (clock - maxDuration + 1) .. clock :
            Recorded(t) = IF (clock - t) % 2 = 0 THEN 1 ELSE 0)
    => \A i \in 0 .. maxDuration - 1 :
           data[i] = IF i % 2 = clock % 2 THEN Num(1) ELSE Zero

\* Increments in seconds 1, 3 and 5 only (none in between) on a counter of
\* 4 seconds: the last one came 2 seconds after the previous access.
C9_Witness ==
    /\ Valid
    /\ JustCalled("increment")
    /\ maxDuration = 4
    /\ clock = 5
    /\ last.elapsed = 2
    /\ hist[5] = 1 /\ hist[4] = 0 /\ hist[3] = 1 /\ hist[2] = 0
    /\ data[1] = Num(1) /\ data[2] = Zero /\ data[3] = Num(1) /\ data[0] = Zero

\* The first two calls on a fresh counter were increment() and then
\* getCount(1), or getCount() with maxDuration = 1.
FreshIncrementThenGetCount ==
    /\ Valid
    /\ story = "incget"
    /\ last.op = "getCount"
    /\ last.d = Arg(1) \/ (last.d = NoArg /\ maxDuration = 1)

\* C10 (as claimed): on a fresh counter increment() followed by getCount(1),
\* with no other call in between, returns 1.
C10_IncrementThenGetCount ==
    FreshIncrementThenGetCount => last.count = Num(1)

\* C10 (amended): ... returns 1 when getCount reads the same clock second
\* as the increment().
C10_IncrementThenGetCountSameSecond ==
    (FreshIncrementThenGetCount /\ last.elapsed = 0) => last.count = Num(1)

\* increment() and getCount(1) in one second on a fresh counter.
C10_Witness ==
    /\ FreshIncrementThenGetCount
    /\ last.d = Arg(1)
    /\ last.elapsed = 0
    /\ last.count = Num(1)

\* C11: a counter created with a valid maxDuration (60 when omitted) has
\* exactly maxDuration buckets, all 0; getCount() on it, at any later time
\* and with no increment() before it, returns 0; and the number of buckets
\* equals maxDuration after every call.
C11_FreshCounterIsEmpty ==
    Valid =>
        /\ DOMAIN data = 0 .. maxDuration - 1
        /\ last.op = "create" =>
               /\ maxDuration = IF last.d = NoArg THEN 60 ELSE last.d[1]
               /\ \A i \in DOMAIN data : data[i] = Zero
        /\ (last.op = "getCount" /\ story = "gets") => last.count = Zero

\* getCount() returned 0 two seconds or more after create() with no
\* argument, on 60 buckets and with no increment() so far.
C11_Witness ==
    /\ Valid
    /\ JustCalled("getCount")
    /\ story = "gets"
    /\ last.d = NoArg
    /\ last.now >= 2
    /\ maxDuration = 60
    /\ DOMAIN data = 0 .. 59
    /\ last.count = Zero

\* The buckets _getIndex is claimed to zero when it reads second now.
ClaimedZeroed(now) ==
    LET elapsed == now - lastUpdatedAt
    IN  IF elapsed = 0 THEN {}
        ELSE IF elapsed = 1 THEN {now % maxDuration}
        ELSE IF elapsed >= maxDuration THEN 0 .. maxDuration - 1
        ELSE {s % maxDuration : s \in (lastUpdatedAt + 1) .. now}

\* C13: _getIndex zeroes exactly the buckets of the seconds that went by
\* (none for elapsed = 0, the one of now for elapsed = 1, all of them for
\* elapsed >= maxDuration, those of lastUpdatedAt+1 .. now in between) and
\* leaves every other bucket as it was: seen whole in a getCount() step,
\* and in every bucket but the current one in an increment() step.
C13_AdvanceZeroesExactly ==
    [][/\ (Valid /\ GetCountOp(NoArg)) =>
              data' = [i \in 0 .. maxDuration - 1 |->
                          IF i \in ClaimedZeroed(clock) THEN Zero ELSE data[i]]
       /\ (Valid /\ IncrementOp) =>
              \A i \in (0 .. maxDuration - 1) \ {clock % maxDuration} :
                  data'[i] = IF i \in ClaimedZeroed(clock) THEN Zero ELSE data[i]]_vars

\* getCount() in second 4, two seconds after the last access, on a counter
\* of 4 seconds whose buckets all sat at the 32-bit top: the range wrapped,
\* buckets 3 and 0 are zeroed and buckets 1 and 2 are untouched.
C13_Witness ==
    /\ Valid
    /\ JustCalled("getCount")
    /\ maxDuration = 4
    /\ last.now = 4
    /\ last.elapsed = 2
    /\ data[3] = Zero /\ data[0] = Zero
    /\ data[1] = MaxUint32 /\ data[2] = MaxUint32

\* The buckets d[0 .. n-1] added to c, exactly.
RECURSIVE Total(_, _, _)
Total(c, d, n) == IF n = 0 THEN c ELSE Plus(Total(c, d, n - 1), d[n - 1])

C14_LastUpdatedAtIsNow ==
    [][(Valid /\ (IncrementOp \/ GetCountOp(NoArg))) =>
           /\ lastUpdatedAt' = clock
           /\ lastUpdatedAt' = last'.now]_vars

\* increment() returned false on a bucket at the 32-bit top, in second 2
\* or later: lastUpdatedAt is that second.
C14_Witness ==
    /\ Valid
    /\ JustCalled("increment")
    /\ ~last.ok
    /\ last.now >= 2
    /\ data[last.now % maxDuration] = MaxUint32
    /\ lastUpdatedAt = last.now

\* C15: getCount(d) changes a bucket only by zeroing it; called in the
\* second of the previous access it leaves data, maxDuration and
\* lastUpdatedAt as they were, and called again with the same d in the
\* same second it returns the same number.
C15_GetCountOnlyZeroes ==
    [][(Valid /\ last'.op = "getCount" /\ GetCountOp(last'.d)) =>
           /\ \A i \in DOMAIN data : data'[i] = data[i] \/ data'[i] = Zero
           /\ clock = lastUpdatedAt =>
                  /\ UNCHANGED <<data, maxDuration, lastUpdatedAt>>
                  /\ (last.op = "getCount" /\ last.d = last'.d /\ last.now = clock) =>
                         last'.count = last.count]_vars

\* getCount(2) in the second of the previous access, on buckets that hold
\* events: it returned 2 and the bucket of the current second still holds 1.
C15_Witness ==
    /\ Valid
    /\ JustCalled("getCount")
    /\ last.elapsed = 0
    /\ last.d = Arg(2)
    /\ maxDuration >= 2
    /\ last.count = Num(2)
    /\ data[last.now % maxDuration] = Num(1)

\* C17: the clock never going back, a call that finds elapsed >= 1 has the
\* bucket of its second at 0 once _getIndex() is through: after such a
\* getCount() that bucket is 0, such an increment() returns true and leaves
\* the bucket at 1, and increment() returns false only where elapsed = 0.
C17_NewSecondStartsAtZero ==
    Valid =>
        /\ (last.op = "getCount" /\ last.elapsed >= 1) =>
               data[last.now % maxDuration] = Zero
        /\ (last.op = "increment" /\ last.elapsed >= 1) =>
               last.ok /\ data[last.now % maxDuration] = Num(1)
        /\ (last.op = "increment" /\ ~last.ok) => last.elapsed = 0

\* The first increment() of a second, one second after the last access, on
\* a buffer that was set to the 32-bit top: it returned true, its bucket
\* holds 1 and another bucket still sits at the top.
C17_Witness ==
    /\ Valid
    /\ JustCalled("increment")
    /\ last.elapsed = 1
    /\ last.ok
    /\ data[last.now % maxDuration] = Num(1)
    /\ \E i \in DOMAIN data : data[i] = MaxUint32

\* The indices the loop of getCount(d) reads, called in the current second.
Visited(d) ==
    {WalkIndex(GetIndex(Self, clock).index, i, maxDuration) :
        i \in 0 .. ClampDuration(d, maxDuration) - 1}

\* min(max(d, 1), maxDuration)
MinMax(d) ==
    LET floor == IF d < 1 THEN 1 ELSE d
    IN  IF floor < maxDuration THEN floor ELSE maxDuration

\* C18: on a counter with maxDuration >= 1 and a clock that is not negative,
\* the index _getIndex() returns and every index the loop of getCount(d)
\* reads is one of 0 .. maxDuration-1 (no call adds up an undefined element
\* and returns -1 for it), and the loop reads min(max(d, 1), maxDuration)
\* indices, no two the same (maxDuration of them when d is omitted).
C18_IndicesInRange ==
    Valid =>
        /\ GetIndex(Self, clock).index \in 0 .. maxDuration - 1
        /\ DOMAIN data = 0 .. maxDuration - 1
        /\ \A d \in Durations :
               LET visited == Visited(d)
               IN  /\ visited \subseteq 0 .. maxDuration - 1
                   /\ Cardinality(visited) =
                          IF d = NoArg THEN maxDuration ELSE MinMax(d[1])
        /\ last.op = "getCount" => last.count # Num(-1)

\* getCount(5) on a counter of 4 seconds in second 5: the loop started at
\* index 1 and wrapped, Visited is all of 0 .. 3, and the events of seconds
\* 2 (index 2) and 5 (index 1) were both counted.
C18_Witness ==
    /\ Valid
    /\ JustCalled("getCount")
    /\ maxDuration = 4
    /\ last.now = 5
    /\ last.d = Arg(5)
    /\ Visited(last.d) = 0 .. 3
    /\ data[2] = Num(1) /\ data[1] = Num(1)
    /\ last.count = Num(2)

\* C16: a call reads the clock once, and whatever the clock does between
\* its statements, the call works on the second it read: _getIndex() stores
\* that second in lastUpdatedAt and returns its index, increment() writes
\* the bucket of that second and no other, getCount(1) returns the bucket of
\* that second, and both end as the whole call made in that second would.
C16_OneSecondPerCall ==
    [][/\ (Valid /\ Advance) =>
              /\ lastUpdatedAt' = call.now
              /\ call'.index = call.now % maxDuration
       /\ (Valid /\ IncrementBody) =>
              /\ lastUpdatedAt = call.now
              /\ \A i \in DOMAIN data \ {call.now % maxDuration} : data'[i] = data[i]
              /\ data'[call.now % maxDuration] = Uint32Inc(data[call.now % maxDuration])
              /\ data' = Increment(Self, call.now).data
       /\ (Valid /\ GetCountBody) =>
              /\ lastUpdatedAt = call.now
              /\ call.d = Arg(1) => call'.count = data[call.now % maxDuration]
              /\ call'.count = GetCount(Self, call.d, call.now).count]_vars

\* An increment() that read the clock in one second and returned in the
\* next: the event is in the bucket of the second read, which is also
\* lastUpdatedAt, and the bucket of the second of return is untouched.
C16_Witness ==
    /\ Valid
    /\ maxDuration >= 2
    /\ call.pc = "done"
    /\ call.op = "increment"
    /\ call.ok
    /\ call.end = call.now + 1
    /\ clock = call.end
    /\ lastUpdatedAt = call.now
    /\ data[call.now % maxDuration] = Num(1)
    /\ data[call.end % maxDuration] = Zero

====
